---------------------------- MODULE Spec2Model ----------------------------
(***************************************************************************)
(* django-swift-crud: the router of swift_crud/routers.py (register,       *)
(* is_already_registered, get_default_basename, method_url_pattern_map,    *)
(* get_urls) and the request dispatch of swift_crud/views.py               *)
(* (get_view_method, _allowed_views, dispatch and the five handlers).      *)
(*                                                                         *)
(* Python strings are modelled as sequences of one-character strings, so   *)
(* that s[-1], s.split("/"), s.lower(), str(int) and f-string              *)
(* concatenation are computed and not assumed.                             *)
(***************************************************************************)
EXTENDS Integers, Sequences, FiniteSets, TLC

VARIABLES
    registery,   \* BaseRouter.registery: sequence of <<prefix, view, basename>>
    call,        \* the last router call and its arguments
    raised,      \* the exception the last router call raised, or NoError
    returned,    \* the value the last get_urls call returned (<<>> if none)
    objects,     \* the data layer: for each model, primary key -> row value
    nextId,      \* the data layer: for each model, the next primary key
    request,     \* the request being answered (view class, method, path, ...)
    response     \* what dispatch answered it with

routerVars == <<registery, call, raised, returned>>

viewVars == <<objects, nextId, request, response>>

vars == <<registery, call, raised, returned, objects, nextId, request, response>>

---------------------------------------------------------------------------
(* Bounds                                                                  *)

MaxReg == 3        \* register is called while the registry is shorter
MaxPk == 2         \* the rows have the primary keys 1..MaxPk
FarPk == 12        \* a primary key of two digits, of no row

---------------------------------------------------------------------------
(* Python values                                                           *)

NoneVal == "<None>"
NoError == "<no error>"

SLASH == <<"/">>
EMPTY == <<>>

LIST_ == <<"l", "i", "s", "t">>
CREATE_ == <<"c", "r", "e", "a", "t", "e">>
DETAIL_ == <<"d", "e", "t", "a", "i", "l">>
UPDATE_ == <<"u", "p", "d", "a", "t", "e">>
DELETE_ == <<"d", "e", "l", "e", "t", "e">>

UpperCase == <<"A", "B", "C", "D", "E", "F", "G", "H", "I", "J", "K", "L", "M",
               "N", "O", "P", "Q", "R", "S", "T", "U", "V", "W", "X", "Y", "Z">>
LowerCase == <<"a", "b", "c", "d", "e", "f", "g", "h", "i", "j", "k", "l", "m",
               "n", "o", "p", "q", "r", "s", "t", "u", "v", "w", "x", "y", "z">>

\* str.lower() on one character
LowerChar(c) ==
    IF \E i \in 1..26 : UpperCase[i] = c
    THEN LowerCase[CHOOSE i \in 1..26 : UpperCase[i] = c]
    ELSE c

\* str.lower()
lower(s) == [i \in 1..Len(s) |-> LowerChar(s[i])]


\* None where the code expects a str (a sequence that is no Python string)
NoneStr == <<"<None>">>

---------------------------------------------------------------------------
(* View classes: SwiftView and the subclasses an application declares.     *)
(* model is the model's object_name (NoneStr: no model); custom_templates  *)
(* is a dict, here a function from operation names to template names;      *)
(* get_single_object_name is what that method returns, NoneStr when the    *)
(* class has no such method: TemplateMixin.get_template_name calls it and  *)
(* SwiftView does not define it; form_class is the model of the ModelForm  *)
(* (NoneStr: no form class).  queryset and paginate_by keep their defaults *)
(* (None) in every class.                                                  *)

\* the class attributes of SwiftView and its mixins
SwiftView ==
    [ model |-> NoneStr,
      allowed_views |-> <<DETAIL_, LIST_, UPDATE_, CREATE_, DELETE_>>,
      pk_url_kwarg |-> <<"p", "k">>,
      template_folder |-> EMPTY,
      custom_templates |-> <<>>,
      get_single_object_name |-> NoneStr,
      redirect_url |-> EMPTY,
      form_class |-> NoneStr ]

\* a fully configured view of model Wg, default allowed_views
WidgetView ==
    [SwiftView EXCEPT !.model = <<"W", "g">>,
                      !.template_folder = <<"w", "g">>,
                      !.redirect_url = <<"w", "g", "_", "l", "i", "s", "t">>,
                      !.form_class = <<"W", "g">>]

\* a view that allows list and detail only
ReadOnlyView ==
    [WidgetView EXCEPT !.allowed_views = <<LIST_, DETAIL_>>]

\* allowed_views in capitals and with a repeated name
ShoutView ==
    [WidgetView EXCEPT !.allowed_views =
        <<<<"L", "I", "S", "T">>, DETAIL_, LIST_, <<"U", "p", "d", "a", "t", "e">>,
          CREATE_, DELETE_>>]

\* allowed_views with a name that is none of the five operations
BogusView ==
    [WidgetView EXCEPT !.allowed_views = <<LIST_, <<"b", "o", "g", "u", "s">>>>]

\* a view that declares no model
NoModelView ==
    [WidgetView EXCEPT !.model = NoneStr]

\* a view that declares no redirect_url
NoRedirectView ==
    [WidgetView EXCEPT !.redirect_url = EMPTY]

\* a view that declares no form_class
NoFormView ==
    [WidgetView EXCEPT !.form_class = NoneStr]

\* an application's view class that defines get_single_object_name itself,
\* and overrides the template of the detail operation
NamedView ==
    [WidgetView EXCEPT !.get_single_object_name = <<"w", "g">>,
                       !.custom_templates = (DETAIL_ :> <<"c", ".", "h", "t", "m", "l">>)]

\* a view that names its list template in custom_templates and declares no
\* template_folder
CustomView ==
    [WidgetView EXCEPT !.template_folder = EMPTY,
                       !.custom_templates = (LIST_ :> <<"c", ".", "h", "t", "m", "l">>)]

\* the models of the application
ModelNames == {<<"W", "g">>}

ViewClass(name) ==
    CASE name = "WidgetView" -> WidgetView
      [] name = "ReadOnlyView" -> ReadOnlyView
      [] name = "ShoutView" -> ShoutView
      [] name = "BogusView" -> BogusView
      [] name = "NoModelView" -> NoModelView
      [] name = "NoRedirectView" -> NoRedirectView
      [] name = "NoFormView" -> NoFormView
      [] name = "NamedView" -> NamedView
      [] name = "CustomView" -> CustomView

---------------------------------------------------------------------------
(* swift_crud/routers.py                                                   *)

\* a variant that drops the last character instead of appending '/'
normalize_prefix_dropping(prefix) ==
    IF prefix # EMPTY /\ prefix[Len(prefix)] # "/"
    THEN SubSeq(prefix, 1, Len(prefix) - 1)
    ELSE prefix

\* register, lines 75-77: "if prefix and prefix[-1] != '/': prefix += '/'"
normalize_prefix(prefix) ==
    IF prefix # EMPTY /\ prefix[Len(prefix)] # "/"
    THEN prefix \o SLASH
    ELSE prefix

\* DefaultRouter.get_default_basename: the model's object_name, lower-cased;
\* the assert fails for a view without a model
get_default_basename(viewset) ==
    IF ViewClass(viewset).model = NoneStr
    THEN [raised |-> "AssertionError", value |-> NoneStr]
    ELSE [raised |-> NoError, value |-> lower(ViewClass(viewset).model)]

\* a variant whose loop looks at the basename of an entry before its prefix
RECURSIVE is_already_registered_from_basename_first(_, _, _, _)
is_already_registered_from_basename_first(reg, i, new_basename, new_prefix) ==
    IF i > Len(reg) THEN <<FALSE, "">>
    ELSE IF reg[i][3] = new_basename THEN <<TRUE, "basename">>
    ELSE IF reg[i][1] = new_prefix THEN <<TRUE, "prefix">>
    ELSE is_already_registered_from_basename_first(reg, i + 1, new_basename, new_prefix)

\* BaseRouter.is_already_registered: the loop from entry i on
RECURSIVE is_already_registered_from(_, _, _, _)
is_already_registered_from(reg, i, new_basename, new_prefix) ==
    IF i > Len(reg) THEN <<FALSE, "">>
    ELSE IF reg[i][1] = new_prefix THEN <<TRUE, "prefix">>
    ELSE IF reg[i][3] = new_basename THEN <<TRUE, "basename">>
    ELSE is_already_registered_from(reg, i + 1, new_basename, new_prefix)

\* a variant whose loop returns after looking at the first entry only
is_already_registered_first_only(reg, new_basename, new_prefix) ==
    IF reg = <<>> THEN <<FALSE, "">>
    ELSE IF reg[1][1] = new_prefix THEN <<TRUE, "prefix">>
    ELSE IF reg[1][3] = new_basename THEN <<TRUE, "basename">>
    ELSE <<FALSE, "">>

is_already_registered(reg, new_basename, new_prefix) ==
    is_already_registered_from(reg, 1, new_basename, new_prefix)

\* a variant that looks for duplicates of the prefix as passed, before the
\* '/' is appended
register_checking_raw_prefix(reg, prefix0, swift_view, basename0) ==
    LET prefix == normalize_prefix(prefix0)
        derived == get_default_basename(swift_view)
        basename == IF basename0 = NoneStr THEN derived.value ELSE basename0
        status == is_already_registered(reg, basename, prefix0)
    IN  IF basename0 = NoneStr /\ derived.raised # NoError
        THEN [registery |-> reg, raised |-> derived.raised]
        ELSE IF status[1] = TRUE /\ status[2] = "basename"
        THEN [registery |-> reg, raised |-> "ImproperlyConfigured:basename"]
        ELSE IF status[1] = TRUE /\ status[2] = "prefix"
        THEN [registery |-> reg, raised |-> "ImproperlyConfigured:prefix"]
        ELSE [registery |-> Append(reg, <<prefix, swift_view, basename>>),
              raised |-> NoError]

\* a variant that puts the new triple in front of the registry
register_prepending(reg, prefix0, swift_view, basename0) ==
    LET prefix == normalize_prefix(prefix0)
        derived == get_default_basename(swift_view)
        basename == IF basename0 = NoneStr THEN derived.value ELSE basename0
        status == is_already_registered(reg, basename, prefix)
    IN  IF basename0 = NoneStr /\ derived.raised # NoError
        THEN [registery |-> reg, raised |-> derived.raised]
        ELSE IF status[1] = TRUE /\ status[2] = "basename"
        THEN [registery |-> reg, raised |-> "ImproperlyConfigured:basename"]
        ELSE IF status[1] = TRUE /\ status[2] = "prefix"
        THEN [registery |-> reg, raised |-> "ImproperlyConfigured:prefix"]
        ELSE [registery |-> <<<<prefix, swift_view, basename>>>> \o reg,
              raised |-> NoError]

\* BaseRouter.register: the registry and the exception it ends with
register(reg, prefix0, swift_view, basename0) ==
    LET prefix == normalize_prefix(prefix0)
        derived == get_default_basename(swift_view)
        basename == IF basename0 = NoneStr THEN derived.value ELSE basename0
        status == is_already_registered(reg, basename, prefix)
    IN  IF basename0 = NoneStr /\ derived.raised # NoError
        THEN [registery |-> reg, raised |-> derived.raised]
        ELSE IF status[1] = TRUE /\ status[2] = "basename"
        THEN [registery |-> reg, raised |-> "ImproperlyConfigured:basename"]
        ELSE IF status[1] = TRUE /\ status[2] = "prefix"
        THEN [registery |-> reg, raised |-> "ImproperlyConfigured:prefix"]
        ELSE [registery |-> Append(reg, <<prefix, swift_view, basename>>),
              raised |-> NoError]

\* the keys of default_patterns
PatternKeys == {LIST_, CREATE_, DETAIL_, UPDATE_, DELETE_}

\* f'<int:{pk_url_kwarg}>/'
IntConverter(pk_url_kwarg) ==
    <<"<", "i", "n", "t", ":">> \o pk_url_kwarg \o <<">", "/">>

\* the route of the list operation, f'{prefix}list/'
list_route(prefix) == prefix \o LIST_ \o SLASH

\* DefaultRouter.method_url_pattern_map: default_patterns[method], a pair
\* <<route, name>>; a method that is no key raises KeyError
method_url_pattern_map(method, pk_url_kwarg, prefix, basename) ==
    CASE method = LIST_ ->
            <<list_route(prefix), basename \o <<"_">> \o LIST_>>
      [] method = CREATE_ ->
            <<prefix \o CREATE_ \o SLASH, basename \o <<"_">> \o CREATE_>>
      [] method = DETAIL_ ->
            <<prefix \o IntConverter(pk_url_kwarg), basename \o <<"_">> \o DETAIL_>>
      [] method = UPDATE_ ->
            <<prefix \o IntConverter(pk_url_kwarg) \o UPDATE_ \o SLASH,
              basename \o <<"_">> \o UPDATE_>>
      [] method = DELETE_ ->
            <<prefix \o IntConverter(pk_url_kwarg) \o DELETE_ \o SLASH,
              basename \o <<"_">> \o DELETE_>>
      [] OTHER -> <<"KeyError", "KeyError">>

\* a variant that passes the basename on as registered
url_name_base_as_registered(basename) == basename

\* the name a pattern entry gets: get_urls passes basename.lower()
url_name_base(basename) == lower(basename)

\* get_urls, the inner loop: the entries of one registered triple, one per
\* element of allowed_views, in the order of allowed_views
routes_of(entry) ==
    LET swift_view == ViewClass(entry[2])
        allowed_views == swift_view.allowed_views
    IN  [k \in 1..Len(allowed_views) |->
            LET rn == method_url_pattern_map(allowed_views[k], swift_view.pk_url_kwarg,
                                             entry[1], url_name_base(entry[3]))
            IN  [route |-> rn[1], view |-> entry[2], name |-> rn[2]]]

\* a variant that puts each view's entries in front of the earlier ones
RECURSIVE routes_from_prepending(_, _)
routes_from_prepending(reg, i) ==
    IF i > Len(reg) THEN <<>>
    ELSE routes_from_prepending(reg, i + 1) \o routes_of(reg[i])

\* get_urls, the outer loop over the registry
RECURSIVE routes_from(_, _)
routes_from(reg, i) ==
    IF i > Len(reg) THEN <<>>
    ELSE routes_of(reg[i]) \o routes_from(reg, i + 1)

\* a variant without the assert: an empty registry gives an empty list
get_urls_returning_empty(reg) ==
    IF \E i \in 1..Len(reg) :
           \E k \in 1..Len(ViewClass(reg[i][2]).allowed_views) :
               ViewClass(reg[i][2]).allowed_views[k] \notin PatternKeys
    THEN [raised |-> "KeyError", value |-> <<>>]
    ELSE [raised |-> NoError, value |-> routes_from(reg, 1)]

\* DefaultRouter.get_urls: the list of path(route, view, name) entries
get_urls(reg) ==
    IF reg = <<>>
    THEN [raised |-> "AssertionError", value |-> <<>>]
    ELSE IF \E i \in 1..Len(reg) :
               \E k \in 1..Len(ViewClass(reg[i][2]).allowed_views) :
                   ViewClass(reg[i][2]).allowed_views[k] \notin PatternKeys
    THEN [raised |-> "KeyError", value |-> <<>>]
    ELSE [raised |-> NoError, value |-> routes_from(reg, 1)]

---------------------------------------------------------------------------
(* Python built-ins used by swift_crud/views.py                            *)

DigitChars == <<"0", "1", "2", "3", "4", "5", "6", "7", "8", "9">>

\* str(n) for an int n >= 0
RECURSIVE IntToStr(_)
IntToStr(n) ==
    IF n < 10 THEN <<DigitChars[n + 1]>>
    ELSE IntToStr(n \div 10) \o <<DigitChars[(n % 10) + 1]>>

\* str(None)
NONE_TEXT == <<"N", "o", "n", "e">>

\* s.split(sep) for a one-character separator
RECURSIVE Split(_, _)
Split(s, sep) ==
    IF \A i \in 1..Len(s) : s[i] # sep THEN <<s>>
    ELSE LET i == CHOOSE k \in 1..Len(s) :
                      s[k] = sep /\ \A j \in 1..(k - 1) : s[j] # sep
         IN  <<SubSeq(s, 1, i - 1)>> \o Split(SubSeq(s, i + 1, Len(s)), sep)

\* l[1:-1]
Slice_1_m1(l) == SubSeq(l, 2, Len(l) - 1)

\* d.get(key): [none |-> TRUE] when the key is missing
DictGet(d, key) ==
    IF key \in DOMAIN d THEN [none |-> FALSE, value |-> d[key]]
                        ELSE [none |-> TRUE, value |-> 0]

---------------------------------------------------------------------------
(* swift_crud/mixins.py                                                    *)

Absent == "<absent>"

\* the templates the template loader finds
TemplatesOnDisk ==
    {<<"w", "g", "/", "w", "g", "_">> \o op \o <<".", "h", "t", "m", "l">> :
        op \in {LIST_, CREATE_, DETAIL_, UPDATE_, DELETE_}}
    \cup {<<"c", ".", "h", "t", "m", "l">>}

\* TemplateMixin.get_template_name(prefix); the default of dict.get is
\* evaluated first, and it calls self.get_single_object_name()
get_template_name(view, prefix) ==
    IF view.template_folder = EMPTY /\ DOMAIN view.custom_templates = {}
    THEN [raised |-> "ValueError", value |-> NoneStr]
    ELSE IF view.get_single_object_name = NoneStr
    THEN [raised |-> "AttributeError", value |-> NoneStr]
    ELSE LET template_name ==
                 IF prefix \in DOMAIN view.custom_templates
                 THEN view.custom_templates[prefix]
                 ELSE view.template_folder \o SLASH \o view.get_single_object_name
                          \o <<"_">> \o prefix \o <<".", "h", "t", "m", "l">>
         IN  IF template_name \in TemplatesOnDisk
             THEN [raised |-> NoError, value |-> template_name]
             ELSE [raised |-> "FileNotFoundError", value |-> NoneStr]

\* RedirectMixin.get_redirect_url
get_redirect_url(view) ==
    IF view.redirect_url # EMPTY
    THEN [raised |-> NoError, value |-> view.redirect_url]
    ELSE [raised |-> "ImproperlyConfigured", value |-> NoneStr]

\* SwiftView.get_model
get_model(view) ==
    IF view.model # NoneStr
    THEN [raised |-> NoError, value |-> view.model]
    ELSE [raised |-> "ValueError", value |-> NoneStr]

\* QuerysetMixin.get_queryset: the rows of the view's model (queryset is None)
get_queryset(view, objs) ==
    LET m == get_model(view)
    IN  IF m.raised # NoError THEN [raised |-> m.raised, value |-> <<>>]
        ELSE [raised |-> NoError, value |-> objs[m.value]]

\* a variant that does not look whether the row is stored
get_object_without_lookup(view, kwargs, objs) ==
    LET queryset == get_queryset(view, objs)
        pk == DictGet(kwargs, view.pk_url_kwarg)
    IN  IF queryset.raised # NoError THEN [raised |-> queryset.raised, pk |-> 0]
        ELSE IF pk.none THEN [raised |-> "Http404", pk |-> 0]
        ELSE IF pk.value \in DOMAIN queryset.value
        THEN [raised |-> NoError, pk |-> pk.value]
        ELSE [raised |-> "Http404", pk |-> 0]

\* QuerysetMixin.get_object: the primary key of the row, Http404 if the
\* keyword argument is missing or no row has that key
get_object(view, kwargs, objs) ==
    LET queryset == get_queryset(view, objs)
        pk == DictGet(kwargs, view.pk_url_kwarg)
    IN  IF queryset.raised # NoError THEN [raised |-> queryset.raised, pk |-> 0]
        ELSE IF pk.none THEN [raised |-> "Http404", pk |-> 0]
        ELSE IF pk.value \in DOMAIN queryset.value /\ queryset.value[pk.value] # Absent
        THEN [raised |-> NoError, pk |-> pk.value]
        ELSE [raised |-> "Http404", pk |-> 0]

\* FormMixin.get_form_class
get_form_class(view) ==
    IF view.form_class = NoneStr
    THEN [raised |-> "ValueError", value |-> NoneStr]
    ELSE [raised |-> NoError, value |-> view.form_class]

---------------------------------------------------------------------------
(* swift_crud/views.py: the handlers.  A handler returns the response and  *)
(* the data layer it leaves: response.view_method is the handler that ran, *)
(* outcome is "render", "redirect" or "raise", saved counts form.save()    *)
(* calls and deleted counts obj.delete() calls; context is what render is  *)
(* given: the rows of the queryset, the key of the object, the data bound  *)
(* to the form.                                                            *)

EmptyPost == "<empty>"
InvalidPost == "<invalid>"

\* what a valid form holds
Values == {"a", "b"}

POST_ == <<"P", "O", "S", "T">>

\* a response without a template context
NoContext == [queryset |-> <<>>, object |-> 0, form |-> "<none>"]

Raise(view_method, exception, objs, ids, saved, deleted) ==
    [response |-> [view_method |-> view_method, outcome |-> "raise",
                   raised |-> exception, template |-> NoneStr, target |-> NoneStr,
                   context |-> NoContext, saved |-> saved, deleted |-> deleted],
     objects |-> objs, nextId |-> ids]

Render(view_method, template, context, objs, ids) ==
    [response |-> [view_method |-> view_method, outcome |-> "render",
                   raised |-> NoError, template |-> template, target |-> NoneStr,
                   context |-> context, saved |-> 0, deleted |-> 0],
     objects |-> objs, nextId |-> ids]

Redirect(view_method, target, objs, ids, saved, deleted) ==
    [response |-> [view_method |-> view_method, outcome |-> "redirect",
                   raised |-> NoError, template |-> NoneStr, target |-> target,
                   context |-> NoContext, saved |-> saved, deleted |-> deleted],
     objects |-> objs, nextId |-> ids]

\* request.POST bound to the form class: form.is_valid()
is_valid(req) == req.POST \in Values

\* SwiftView.list_view
list_view(view, req, objs, ids) ==
    LET queryset == get_queryset(view, objs)
        template == get_template_name(view, LIST_)
    IN  IF queryset.raised # NoError
        THEN Raise("list_view", queryset.raised, objs, ids, 0, 0)
        ELSE IF template.raised # NoError
        THEN Raise("list_view", template.raised, objs, ids, 0, 0)
        ELSE Render("list_view", template.value,
                    [NoContext EXCEPT !.queryset = queryset.value], objs, ids)

\* SwiftView.detail_view
detail_view(view, req, objs, ids) ==
    LET obj == get_object(view, req.kwargs, objs)
        template == get_template_name(view, DETAIL_)
    IN  IF obj.raised # NoError
        THEN Raise("detail_view", obj.raised, objs, ids, 0, 0)
        ELSE IF template.raised # NoError
        THEN Raise("detail_view", template.raised, objs, ids, 0, 0)
        ELSE Render("detail_view", template.value,
                    [NoContext EXCEPT !.object = obj.pk], objs, ids)

\* a variant that deletes every row of the model
delete_view_deleting_all(view, req, objs, ids) ==
    LET obj == get_object(view, req.kwargs, objs)
        after == [objs EXCEPT ![view.model] = [pk \in DOMAIN @ |-> Absent]]
        url == get_redirect_url(view)
    IN  IF obj.raised # NoError
        THEN Raise("delete_view", obj.raised, objs, ids, 0, 0)
        ELSE IF url.raised # NoError
        THEN Raise("delete_view", url.raised, after, ids, 0, 1)
        ELSE Redirect("delete_view", url.value, after, ids, 0, 1)

\* SwiftView.delete_view: the row is deleted before the redirect is resolved
delete_view(view, req, objs, ids) ==
    LET obj == get_object(view, req.kwargs, objs)
        after == [objs EXCEPT ![view.model][obj.pk] = Absent]
        url == get_redirect_url(view)
    IN  IF obj.raised # NoError
        THEN Raise("delete_view", obj.raised, objs, ids, 0, 0)
        ELSE IF url.raised # NoError
        THEN Raise("delete_view", url.raised, after, ids, 0, 1)
        ELSE Redirect("delete_view", url.value, after, ids, 0, 1)

\* a variant whose valid form is saved under every key
create_view_saving_everywhere(view, req, objs, ids) ==
    LET form_class == get_form_class(view)
        url == get_redirect_url(view)
        template == get_template_name(view, CREATE_)
    IN  IF form_class.raised # NoError
        THEN Raise("create_view", form_class.raised, objs, ids, 0, 0)
        ELSE IF req.method = POST_ /\ is_valid(req)
        THEN LET m == form_class.value
                 after == [objs EXCEPT ![m] = [pk \in DOMAIN @ |-> req.POST]]
                 ids2 == [ids EXCEPT ![m] = @ + 1]
             IN  IF url.raised # NoError
                 THEN Raise("create_view", url.raised, after, ids2, 1, 0)
                 ELSE Redirect("create_view", url.value, after, ids2, 1, 0)
        ELSE IF template.raised # NoError
        THEN Raise("create_view", template.raised, objs, ids, 0, 0)
        ELSE Render("create_view", template.value,
                    [NoContext EXCEPT !.form = req.POST], objs, ids)

\* SwiftView.create_view: form.save() inserts a row of the form's model
\* under the next key
create_view(view, req, objs, ids) ==
    LET form_class == get_form_class(view)
        url == get_redirect_url(view)
        template == get_template_name(view, CREATE_)
    IN  IF form_class.raised # NoError
        THEN Raise("create_view", form_class.raised, objs, ids, 0, 0)
        ELSE IF req.method = POST_ /\ is_valid(req)
        THEN LET m == form_class.value
                 after == [objs EXCEPT ![m][ids[m]] = req.POST]
                 ids2 == [ids EXCEPT ![m] = @ + 1]
             IN  IF url.raised # NoError
                 THEN Raise("create_view", url.raised, after, ids2, 1, 0)
                 ELSE Redirect("create_view", url.value, after, ids2, 1, 0)
        ELSE IF template.raised # NoError
        THEN Raise("create_view", template.raised, objs, ids, 0, 0)
        ELSE Render("create_view", template.value,
                    [NoContext EXCEPT !.form = req.POST], objs, ids)

\* a variant whose valid form is not saved
update_view_without_save(view, req, objs, ids) ==
    LET obj == get_object(view, req.kwargs, objs)
        form_class == get_form_class(view)
        url == get_redirect_url(view)
        template == get_template_name(view, UPDATE_)
    IN  IF obj.raised # NoError
        THEN Raise("update_view", obj.raised, objs, ids, 0, 0)
        ELSE IF form_class.raised # NoError
        THEN Raise("update_view", form_class.raised, objs, ids, 0, 0)
        ELSE IF req.method = POST_ /\ is_valid(req)
        THEN LET after == objs
             IN  IF url.raised # NoError
                 THEN Raise("update_view", url.raised, after, ids, 1, 0)
                 ELSE Redirect("update_view", url.value, after, ids, 1, 0)
        ELSE IF template.raised # NoError
        THEN Raise("update_view", template.raised, objs, ids, 0, 0)
        ELSE Render("update_view", template.value,
                    [NoContext EXCEPT !.form = req.POST, !.object = obj.pk], objs, ids)

\* SwiftView.update_view: form.save() writes the row of the object
update_view(view, req, objs, ids) ==
    LET obj == get_object(view, req.kwargs, objs)
        form_class == get_form_class(view)
        url == get_redirect_url(view)
        template == get_template_name(view, UPDATE_)
    IN  IF obj.raised # NoError
        THEN Raise("update_view", obj.raised, objs, ids, 0, 0)
        ELSE IF form_class.raised # NoError
        THEN Raise("update_view", form_class.raised, objs, ids, 0, 0)
        ELSE IF req.method = POST_ /\ is_valid(req)
        THEN LET after == [objs EXCEPT ![view.model][obj.pk] = req.POST]
             IN  IF url.raised # NoError
                 THEN Raise("update_view", url.raised, after, ids, 1, 0)
                 ELSE Redirect("update_view", url.value, after, ids, 1, 0)
        ELSE IF template.raised # NoError
        THEN Raise("update_view", template.raised, objs, ids, 0, 0)
        ELSE Render("update_view", template.value,
                    [NoContext EXCEPT !.form = req.POST, !.object = obj.pk], objs, ids)

---------------------------------------------------------------------------
(* swift_crud/views.py: the dispatch                                       *)

\* acceptable_views
acceptable_views == {DETAIL_, LIST_, UPDATE_, CREATE_, DELETE_}

\* a variant that returns the five operations whatever allowed_views names
_allowed_views_ignoring_attribute(view) ==
    [raised |-> NoError, value |-> acceptable_views]

\* SwiftView._allowed_views: the lower-cased names, TypeError at a name that
\* is none of the five
_allowed_views(view) ==
    IF \E k \in 1..Len(view.allowed_views) :
           lower(view.allowed_views[k]) \notin acceptable_views
    THEN [raised |-> "TypeError", value |-> {}]
    ELSE [raised |-> NoError,
          value |-> {lower(view.allowed_views[k]) : k \in 1..Len(view.allowed_views)}]

VIEW_ == <<"_", "v", "i", "e", "w">>

\* view_method.__name__
NameOfMethod(view_method) ==
    CASE view_method = "list_view" -> LIST_ \o VIEW_
      [] view_method = "create_view" -> CREATE_ \o VIEW_
      [] view_method = "update_view" -> UPDATE_ \o VIEW_
      [] view_method = "delete_view" -> DELETE_ \o VIEW_
      [] view_method = "detail_view" -> DETAIL_ \o VIEW_

\* a variant whose dict has the four keywords only
view_method_router_without_pk(view, kwargs, section) ==
    IF section = LIST_ THEN "list_view"
    ELSE IF section = CREATE_ THEN "create_view"
    ELSE IF section = UPDATE_ THEN "update_view"
    ELSE IF section = DELETE_ THEN "delete_view"
    ELSE NoneVal

\* view_method_router.get(section): a dict literal, so the key written last,
\* str(kwargs.get(pk_url_kwarg)), wins over an equal keyword
view_method_router(view, kwargs, section) ==
    LET pk == DictGet(kwargs, view.pk_url_kwarg)
        pk_key == IF pk.none THEN NONE_TEXT ELSE IntToStr(pk.value)
    IN  IF section = pk_key THEN "detail_view"
        ELSE IF section = LIST_ THEN "list_view"
        ELSE IF section = CREATE_ THEN "create_view"
        ELSE IF section = UPDATE_ THEN "update_view"
        ELSE IF section = DELETE_ THEN "delete_view"
        ELSE NoneVal

\* the tests of lines 255 and 258: a keyword compared with path[-1], the
\* last character of the path
path_ends_with(path, keyword) == keyword = <<path[Len(path)]>>

\* SwiftView.get_view_method: the handler, NoneVal for "return None", or the
\* exception raised
get_view_method(view, req) ==
    LET method == lower(req.method)
        path_sections == Slice_1_m1(Split(req.path, "/"))
    IN  IF method = <<"g", "e", "t">> \/ method = <<"p", "o", "s", "t">>
        THEN IF path_sections = <<>>
             THEN [raised |-> "IndexError", value |-> NoneVal]
             ELSE LET view_method ==
                          view_method_router(view, req.kwargs,
                                             path_sections[Len(path_sections)])
                  IN  IF view_method = NoneVal
                      THEN [raised |-> "AttributeError", value |-> NoneVal]
                      ELSE LET view_method_name ==
                                   Split(NameOfMethod(view_method), "_")[1]
                               allowed_views == _allowed_views(view)
                           IN  IF allowed_views.raised # NoError
                               THEN [raised |-> allowed_views.raised, value |-> NoneVal]
                               ELSE IF view_method_name \notin allowed_views.value
                               THEN [raised |-> "ViewDoesNotExist", value |-> NoneVal]
                               ELSE [raised |-> NoError, value |-> view_method]
        ELSE IF method = <<"p", "u", "t">> /\ path_ends_with(req.path, UPDATE_)
        THEN [raised |-> NoError, value |-> "update_view"]
        ELSE IF method = <<"d", "e", "l", "e", "t", "e">>
                /\ path_ends_with(req.path, DELETE_)
        THEN [raised |-> NoError, value |-> "delete_view"]
        ELSE [raised |-> NoError, value |-> NoneVal]

\* super().dispatch of django.views.View: SwiftView has no method named
\* after an HTTP verb, so the answer is http_method_not_allowed (405)
http_method_not_allowed(objs, ids) ==
    [response |-> [view_method |-> NoneVal, outcome |-> "405", raised |-> NoError,
                   template |-> NoneStr, target |-> NoneStr, context |-> NoContext,
                   saved |-> 0, deleted |-> 0],
     objects |-> objs, nextId |-> ids]

\* SwiftView.dispatch
dispatch(view, req, objs, ids) ==
    LET view_method == get_view_method(view, req)
    IN  IF view_method.raised # NoError
        THEN Raise(NoneVal, view_method.raised, objs, ids, 0, 0)
        ELSE CASE view_method.value = "list_view" -> list_view(view, req, objs, ids)
               [] view_method.value = "detail_view" -> detail_view(view, req, objs, ids)
               [] view_method.value = "create_view" -> create_view(view, req, objs, ids)
               [] view_method.value = "update_view" -> update_view(view, req, objs, ids)
               [] view_method.value = "delete_view" -> delete_view(view, req, objs, ids)
               [] OTHER -> http_method_not_allowed(objs, ids)

---------------------------------------------------------------------------
(* Inputs of the router                                                    *)

\* prefixes passed to register: empty, without, with one, with two final '/'
Prefixes == {EMPTY, <<"w">>, <<"w", "/">>, <<"w", "/", "/">>}

\* view classes passed to register
RouterViews == {"WidgetView", "ReadOnlyView", "ShoutView"}

\* basenames passed to register: omitted, or explicit
Basenames == {NoneStr, <<"w", "g">>, <<"W", "g">>, <<"e", "m">>}

NoCall == [op |-> "none", prefix |-> EMPTY, view |-> "", basename |-> NoneStr]

---------------------------------------------------------------------------
(* Inputs of the views                                                     *)

\* view classes that answer requests
DispatchViews ==
    {"WidgetView", "ReadOnlyView", "ShoutView", "BogusView", "NoModelView",
     "NoRedirectView", "NoFormView", "NamedView", "CustomView"}

GET_ == <<"G", "E", "T">>
PUT_ == <<"P", "U", "T">>
DELETE_VERB == <<"D", "E", "L", "E", "T", "E">>
PATCH_ == <<"P", "A", "T", "C", "H">>

Methods == {GET_, POST_, PUT_, DELETE_VERB, PATCH_}

\* the path of the resource
BasePath == <<"/", "w", "/">>

\* the primary keys requests ask for
RequestPks == (1..MaxPk) \cup {FarPk}

\* the texts the int converter of a route accepts for the key p
PkTexts == UNION {{IntToStr(p), <<"0">> \o IntToStr(p)} : p \in RequestPks}

\* request paths: the base path, the base path and a keyword, the base path
\* and a key text, alone or followed by a keyword, and the root path
Paths ==
    {SLASH, BasePath}
    \cup {BasePath \o kw \o SLASH : kw \in {LIST_, CREATE_, UPDATE_, DELETE_, NONE_TEXT}}
    \cup {BasePath \o t \o SLASH \o tail :
              t \in PkTexts,
              tail \in {EMPTY, UPDATE_ \o SLASH, DELETE_ \o SLASH, UPDATE_}}

\* int(text) for a text of digits
RECURSIVE ToInt(_)
ToInt(text) ==
    IF text = EMPTY THEN 0
    ELSE 10 * ToInt(SubSeq(text, 1, Len(text) - 1))
            + ((CHOOSE d \in 1..10 : DigitChars[d] = text[Len(text)]) - 1)

\* the text matches the int converter of a route: [0-9]+
IsDigits(text) ==
    /\ text # EMPTY
    /\ \A i \in 1..Len(text) : \E d \in 1..10 : DigitChars[d] = text[i]

\* the keyword arguments a route can have matched on the path: none, or the
\* primary key converted from a segment of digits
KwargsOf(path) ==
    {<<>>} \cup {(<<"p", "k">> :> ToInt(section)) :
                    section \in {sec \in {Split(path, "/")[i] :
                                             i \in 1..Len(Split(path, "/"))} :
                                     IsDigits(sec)}}

\* request.POST: empty unless the method is POST
PostData(method) ==
    IF method = POST_ THEN {EmptyPost, InvalidPost} \cup Values ELSE {EmptyPost}

NoRequest ==
    [view |-> "", method |-> EMPTY, path |-> EMPTY, kwargs |-> <<>>, POST |-> EmptyPost]

NoResponse ==
    [view_method |-> NoneVal, outcome |-> "none", raised |-> NoError,
     template |-> NoneStr, target |-> NoneStr, context |-> NoContext,
     saved |-> 0, deleted |-> 0]

---------------------------------------------------------------------------
(* The router as a state machine                                           *)

Init ==
    /\ registery = <<>>
    /\ call = NoCall
    /\ raised = NoError
    /\ returned = <<>>
    /\ objects = [m \in ModelNames |-> [pk \in 1..MaxPk |-> Absent]]
    /\ nextId = [m \in ModelNames |-> 1]
    /\ request = NoRequest
    /\ response = NoResponse

\* router.register(prefix, swift_view, basename)
Register(prefix, swift_view, basename) ==
    /\ Len(registery) < MaxReg
    /\ \E r \in {register(registery, prefix, swift_view, basename)} :
           /\ registery' = r.registery
           /\ raised' = r.raised
    /\ call' = [op |-> "register", prefix |-> prefix, view |-> swift_view,
                basename |-> basename]
    /\ returned' = <<>>
    /\ UNCHANGED viewVars

\* router.get_urls() / router.urls
GetUrls ==
    /\ \E r \in {get_urls(registery)} :
           /\ raised' = r.raised
           /\ returned' = r.value
    /\ call' = [NoCall EXCEPT !.op = "get_urls"]
    /\ UNCHANGED registery
    /\ UNCHANGED viewVars

RouterNext ==
    \/ \E prefix \in Prefixes, swift_view \in RouterViews, basename \in Basenames :
           Register(prefix, swift_view, basename)
    \/ GetUrls

SpecRouter == Init /\ [][RouterNext]_vars

---------------------------------------------------------------------------
(* The views as a state machine: one request at a time is answered by a    *)
(* fresh instance of the view class (View.as_view)                         *)

\* the view answers a request: SwiftView.dispatch and the handler it calls
Dispatch(view, method, path, kwargs, post) ==
    /\ request = NoRequest
    /\ LET req == [view |-> view, method |-> method, path |-> path,
                   kwargs |-> kwargs, POST |-> post]
       IN  \E r \in {dispatch(ViewClass(view), req, objects, nextId)} :
               /\ \A m \in ModelNames : r.nextId[m] <= MaxPk + 1
               /\ request' = req
               /\ response' = r.response
               /\ objects' = r.objects
               /\ nextId' = r.nextId
    /\ UNCHANGED routerVars

\* the response has been returned and the view instance is dropped
Reply ==
    /\ request # NoRequest
    /\ request' = NoRequest
    /\ response' = NoResponse
    /\ UNCHANGED <<objects, nextId>>
    /\ UNCHANGED routerVars

ViewNext ==
    \/ /\ request = NoRequest
       /\ \E path \in Paths :
              \E view \in DispatchViews, method \in Methods, kwargs \in KwargsOf(path) :
                  \E post \in PostData(method) : Dispatch(view, method, path, kwargs, post)
    \/ Reply

SpecView == Init /\ [][ViewNext]_vars


---------------------------------------------------------------------------
(* Properties of the dispatch                                              *)

\* the operations the view class allows: the names of allowed_views,
\* lower-cased
OpsAllowed(view) ==
    {lower(ViewClass(view).allowed_views[k]) :
        k \in 1..Len(ViewClass(view).allowed_views)}

\* allowed_views names operations only
NamesValid(view) == OpsAllowed(view) \subseteq {LIST_, CREATE_, DETAIL_, UPDATE_, DELETE_}

\* the operation a handler implements
OpOfMethod(view_method) ==
    CASE view_method = "list_view" -> LIST_
      [] view_method = "create_view" -> CREATE_
      [] view_method = "detail_view" -> DETAIL_
      [] view_method = "update_view" -> UPDATE_
      [] view_method = "delete_view" -> DELETE_

Answered == request # NoRequest

HasNoPk(req) == DOMAIN req.kwargs = {}

\* C1 (as claimed): a GET request for the base path of the resource, with no
\* primary key among the path parameters, is resolved to the list handler.
C1_BasePathResolvesToList ==
    (/\ Answered
     /\ request.method = GET_
     /\ request.path = BasePath
     /\ HasNoPk(request)
     /\ NamesValid(request.view) /\ LIST_ \in OpsAllowed(request.view))
    => response.view_method = "list_view"

\* C2: a GET request for the path of the resource followed by the text of
\* the primary key p, with path parameter pk = p, is resolved to the detail
\* handler when detail is an allowed operation.
C2_PkPathResolvesToDetail ==
    \A p \in RequestPks :
        (/\ Answered
         /\ request.method = GET_
         /\ request.kwargs = (<<"p", "k">> :> p)
         /\ request.path = BasePath \o IntToStr(p) \o SLASH
         /\ NamesValid(request.view) /\ DETAIL_ \in OpsAllowed(request.view))
        => response.view_method = "detail_view"

\* C2 witness: GET for the path of stored row 1, with path parameter pk = 1,
\* was resolved to the detail handler
C2_Witness ==
    /\ Answered /\ request.method = GET_ /\ response.view_method = "detail_view"
    /\ request.kwargs = (<<"p", "k">> :> 1)
    /\ request.path = BasePath \o <<"1">> \o SLASH
    /\ objects[<<"W", "g">>][1] # Absent

\* the step in which a view answers a request
Answering == request = NoRequest /\ request' # NoRequest

\* the operation the path of a GET or POST request selects, NoneVal if none
Selected(req) ==
    LET sections == Slice_1_m1(Split(req.path, "/"))
    IN  IF sections = <<>> THEN NoneVal
        ELSE view_method_router(ViewClass(req.view), req.kwargs, sections[Len(sections)])

\* C3: dispatch never runs the handler of an operation that is not in the
\* view's allowed_views, and a GET or POST request whose path selects such an
\* operation fails with the view-not-permitted error, with nothing rendered
\* and nothing written.
C3_NotAllowedNeverRuns ==
    [][ Answering =>
          /\ response'.view_method # NoneVal =>
                /\ NamesValid(request'.view)
                /\ OpOfMethod(response'.view_method) \in OpsAllowed(request'.view)
          /\ response'.view_method = NoneVal =>
                /\ response'.outcome \notin {"render", "redirect"}
                /\ response'.saved = 0 /\ response'.deleted = 0
                /\ objects' = objects /\ nextId' = nextId
          /\ (/\ request'.method \in {GET_, POST_}
              /\ Selected(request') # NoneVal
              /\ NamesValid(request'.view)
              /\ OpOfMethod(Selected(request')) \notin OpsAllowed(request'.view))
             => /\ response'.view_method = NoneVal
                /\ response'.outcome = "raise"
                /\ response'.raised = "ViewDoesNotExist" ]_vars

\* C3 witness: a POST with valid data for the create path of a view that
\* allows list and detail only, while a row is stored
C3_Witness ==
    /\ Answered /\ request.view = "ReadOnlyView"
    /\ request.method = POST_ /\ request.POST \in Values
    /\ request.path = BasePath \o CREATE_ \o SLASH
    /\ response.raised = "ViewDoesNotExist"
    /\ objects[<<"W", "g">>][1] # Absent

EndsWith(s, t) ==
    Len(s) >= Len(t) /\ SubSeq(s, Len(s) - Len(t) + 1, Len(s)) = t

\* the path ends with the keyword (and the final '/')
PathEndsWith(path, keyword) ==
    \/ EndsWith(path, SLASH \o keyword \o SLASH)
    \/ EndsWith(path, SLASH \o keyword)

\* C4 (as claimed): PUT on a path that ends with the update keyword is
\* resolved to the update handler, DELETE on a path that ends with the
\* delete keyword to the delete handler, and PUT and DELETE reach no other
\* handler.
C4_PutAndDeleteVerbs ==
    Answered =>
        /\ (request.method = PUT_ /\ PathEndsWith(request.path, UPDATE_))
              => response.view_method = "update_view"
        /\ (request.method = DELETE_VERB /\ PathEndsWith(request.path, DELETE_))
              => response.view_method = "delete_view"
        /\ request.method = PUT_ => response.view_method \in {NoneVal, "update_view"}
        /\ request.method = DELETE_VERB
              => response.view_method \in {NoneVal, "delete_view"}

---------------------------------------------------------------------------
(* Properties of the router                                                *)

\* the view's allowed_views names each of the five operations once, in
\* lower case
ListsFiveOnce(view) ==
    /\ Len(ViewClass(view).allowed_views) = 5
    /\ {ViewClass(view).allowed_views[k] : k \in 1..5} = PatternKeys

\* the number of pattern entries in front of those of registry entry i
RECURSIVE Offset(_)
Offset(i) ==
    IF i <= 1 THEN 0
    ELSE Offset(i - 1) + Len(ViewClass(registery[i - 1][2]).allowed_views)

\* the (route, name) pairs get_urls returned for registry entry i
PairsOf(i) ==
    {<<returned[Offset(i) + k].route, returned[Offset(i) + k].name>> :
        k \in 1..Len(ViewClass(registery[i][2]).allowed_views)}

PkPart == <<"<", "i", "n", "t", ":", "p", "k", ">", "/">>

GotUrls == call.op = "get_urls" /\ raised = NoError

\* the operations of `ops` in the order list, create, detail, update, delete
InFixedOrder(ops) ==
    SelectSeq(<<LIST_, CREATE_, DETAIL_, UPDATE_, DELETE_>>, LAMBDA o : o \in ops)

\* C5 (as claimed): for a registered entry with prefix r and basename b whose
\* view allows all five operations, get_urls generates exactly list at r,
\* create at r create/, detail at r<int:pk>/, update at r<int:pk>/update/ and
\* delete at r<int:pk>/delete/, named b_list, b_create, b_detail, b_update,
\* b_delete.
C5_RouteTable ==
    (call.op = "get_urls" /\ registery # <<>>) =>
        \A i \in 1..Len(registery) :
            ListsFiveOnce(registery[i][2]) =>
                LET r == registery[i][1]
                    b == registery[i][3]
                IN  /\ raised = NoError
                    /\ PairsOf(i) =
                         { <<r, b \o <<"_">> \o LIST_>>,
                           <<r \o CREATE_ \o SLASH, b \o <<"_">> \o CREATE_>>,
                           <<r \o PkPart, b \o <<"_">> \o DETAIL_>>,
                           <<r \o PkPart \o UPDATE_ \o SLASH, b \o <<"_">> \o UPDATE_>>,
                           <<r \o PkPart \o DELETE_ \o SLASH, b \o <<"_">> \o DELETE_>> }

AllListFiveOnce ==
    \A i \in 1..Len(registery) : ListsFiveOnce(registery[i][2])

\* C6 (as claimed): when every registered view allows all five operations,
\* get_urls returns 5*N entries and every name is the basename as registered,
\* an underscore and the operation.
C6_NamesAsRegistered ==
    (call.op = "get_urls" /\ registery # <<>> /\ AllListFiveOnce) =>
        /\ raised = NoError
        /\ Len(returned) = 5 * Len(registery)
        /\ \A i \in 1..Len(registery) :
              {returned[5 * (i - 1) + k].name : k \in 1..5} =
                  {registery[i][3] \o <<"_">> \o op : op \in PatternKeys}

\* C6 (amended): when every registered view's allowed_views names each of
\* the five operations once in lower case, get_urls returns 5*N entries, five
\* per registered view, and their names are the lower-cased basename, an
\* underscore and the operation, one entry for each of the five operations.
C6_CountAndNames ==
    (call.op = "get_urls" /\ registery # <<>> /\ AllListFiveOnce) =>
        /\ raised = NoError
        /\ Len(returned) = 5 * Len(registery)
        /\ \A i \in 1..Len(registery) :
              {returned[5 * (i - 1) + k].name : k \in 1..5} =
                  {lower(registery[i][3]) \o <<"_">> \o op : op \in PatternKeys}

\* C6 witness: get_urls returned for two or more views of five operations,
\* one of them registered under a basename with a capital letter
C6_Witness ==
    /\ GotUrls /\ AllListFiveOnce /\ Len(registery) >= 2
    /\ \E i \in 1..Len(registery) : registery[i][3] # lower(registery[i][3])

\* does the pattern entry e belong to registry entry i and operation op
IsEntryFor(e, i, op) ==
    /\ e.view = registery[i][2]
    /\ SubSeq(e.route, 1, Len(registery[i][1])) = registery[i][1]
    /\ EndsWith(e.name, <<"_">> \o op)

\* C7 (as claimed): entries of earlier registrations come first, and the
\* entries of one view come in the order list, create, detail, update, delete
\* whatever the order of its allowed_views.
C7_FixedOrder ==
    GotUrls =>
        \A i \in 1..Len(registery) :
            LET ops == InFixedOrder({ViewClass(registery[i][2]).allowed_views[k] :
                          k \in 1..Len(ViewClass(registery[i][2]).allowed_views)})
            IN  \A k \in 1..Len(ops) :
                    IsEntryFor(returned[Offset(i) + k], i, ops[k])

\* C7 (amended): entries of earlier registrations come first, and the
\* entries of one view come in the order in which its allowed_views names
\* the operations.
C7_RegistrationThenAllowedOrder ==
    GotUrls =>
        /\ Len(returned) = Offset(Len(registery) + 1)
        /\ \A i \in 1..Len(registery) :
              \A k \in 1..Len(ViewClass(registery[i][2]).allowed_views) :
                  IsEntryFor(returned[Offset(i) + k], i,
                             ViewClass(registery[i][2]).allowed_views[k])

\* C7 witness: get_urls returned for several registrations, one of a view
\* whose allowed_views is not in the order list, create, detail, update,
\* delete and one of a view with fewer operations
C7_Witness ==
    /\ GotUrls /\ Len(registery) >= 2
    /\ \E i \in 1..Len(registery) :
          ViewClass(registery[i][2]).allowed_views[1] = DETAIL_
    /\ \E i \in 1..Len(registery) :
          Len(ViewClass(registery[i][2]).allowed_views) < 5

\* the basename a register call registers under (explicit, or derived)
BasenameOf(c) ==
    IF c.basename = NoneStr THEN get_default_basename(c.view).value ELSE c.basename

ConfigErrors == {"ImproperlyConfigured:basename", "ImproperlyConfigured:prefix"}

\* C8: a register call whose basename (explicit or derived) is the basename
\* of a registered entry, or whose normalized prefix is the prefix of a
\* registered entry, fails with a configuration error.
C8_DuplicateRejected ==
    [][ (/\ call'.op = "register"
         /\ BasenameOf(call') # NoneStr
         /\ \E i \in 1..Len(registery) :
               \/ registery[i][3] = BasenameOf(call')
               \/ registery[i][1] = normalize_prefix(call'.prefix))
        => raised' \in ConfigErrors ]_vars

\* C8 witness: a register call failed on the prefix of the second entry,
\* which it equals only after normalization, with the basename derived
C8_Witness ==
    /\ call.op = "register" /\ raised \in ConfigErrors
    /\ Len(registery) >= 2
    /\ call.basename = NoneStr
    /\ registery[2][1] = normalize_prefix(call.prefix)
    /\ registery[2][1] # call.prefix
    /\ registery[1][3] # BasenameOf(call) /\ registery[2][3] # BasenameOf(call)

\* C9: no two registry entries share a prefix, and no two share a basename.
C9_UniqueEntries ==
    \A i, j \in 1..Len(registery) :
        i # j => /\ registery[i][1] # registery[j][1]
                 /\ registery[i][3] # registery[j][3]

\* C9 witness: a full registry after a register call that failed
C9_Witness ==
    /\ Len(registery) >= 2
    /\ call.op = "register" /\ raised \in ConfigErrors

\* the last character of a non-empty string
LastChar(s) == s[Len(s)]

\* s without its trailing '/' characters
RECURSIVE StripSlashes(_)
StripSlashes(s) ==
    IF s # EMPTY /\ LastChar(s) = "/"
    THEN StripSlashes(SubSeq(s, 1, Len(s) - 1))
    ELSE s

Registered == call.op = "register" /\ raised = NoError

StoredPrefix == registery[Len(registery)][1]

\* C10 (as claimed): the prefix stored by a successful register ends with
\* exactly one '/' and otherwise keeps the characters of the prefix passed.
C10_ExactlyOneSlash ==
    Registered => StoredPrefix = StripSlashes(call.prefix) \o SLASH

\* C10 (amended): a non-empty prefix that does not end with '/' is stored
\* with one '/' appended; an empty prefix and a prefix that ends with '/'
\* (once or several times) are stored unchanged; normalizing the stored
\* prefix again changes nothing.
C10_SlashAppendedWhenMissing ==
    Registered =>
        /\ (call.prefix = EMPTY => StoredPrefix = EMPTY)
        /\ (call.prefix # EMPTY /\ LastChar(call.prefix) = "/"
                => StoredPrefix = call.prefix)
        /\ (call.prefix # EMPTY /\ LastChar(call.prefix) # "/"
                => /\ StoredPrefix = call.prefix \o SLASH
                   /\ StripSlashes(StoredPrefix) = call.prefix)
        /\ normalize_prefix(StoredPrefix) = StoredPrefix

\* C10 witness: the empty prefix and the prefix with two final '/' are in the
\* registry and a prefix without a final '/' has just been registered
C10_Witness ==
    /\ Registered /\ Len(registery) = 3
    /\ call.prefix # EMPTY /\ LastChar(call.prefix) # "/"
    /\ \E i \in 1..2 : registery[i][1] = EMPTY
    /\ \E i \in 1..2 : registery[i][1] = <<"w", "/", "/">>

---------------------------------------------------------------------------
(* Properties of the router, continued                                     *)

\* C11: get_urls (and the urls property, which calls it) on a router whose
\* registry is empty, because no registration has succeeded, fails with the
\* empty-registry assertion and returns no list of patterns; on a router
\* with a registered view it does not fail that way.
C11_EmptyRegistryFails ==
    call.op = "get_urls" =>
        /\ (registery = <<>> => raised = "AssertionError" /\ returned = <<>>)
        /\ (registery # <<>> => raised # "AssertionError")

\* C11 witness: get_urls has been called on the router before any
\* registration and has failed
C11_Witness ==
    /\ call.op = "get_urls" /\ registery = <<>>
    /\ raised = "AssertionError"

---------------------------------------------------------------------------
(* Properties of the handlers                                              *)

\* the view class has a model, a form class and a redirect target, and its
\* allowed_views names operations only
Configured(view) ==
    /\ ViewClass(view).model # NoneStr
    /\ ViewClass(view).form_class # NoneStr
    /\ ViewClass(view).redirect_url # EMPTY
    /\ NamesValid(view)

\* the path of operation op on the row with key p
PkPath(p, op) == BasePath \o IntToStr(p) \o SLASH \o op \o SLASH

PkKwargs(p) == (<<"p", "k">> :> p)

\* the rows of the view's model
Rows(view, objs) == objs[ViewClass(view).model]

\* C12: a POST with valid form data to the update path of an existing row
\* writes the submitted values to that row and to no other, and is answered
\* with a redirect to the view's redirect_url, not with a rendered form.
C12_ValidUpdatePersists ==
    [][ \A p \in 1..MaxPk :
          (/\ Answering
           /\ request'.method = POST_
           /\ request'.path = PkPath(p, UPDATE_)
           /\ request'.kwargs = PkKwargs(p)
           /\ request'.POST \in Values
           /\ Configured(request'.view)
           /\ UPDATE_ \in OpsAllowed(request'.view)
           /\ Rows(request'.view, objects)[p] # Absent)
          => /\ response'.view_method = "update_view"
             /\ response'.outcome = "redirect"
             /\ response'.target = ViewClass(request'.view).redirect_url
             /\ objects' = [objects EXCEPT ![ViewClass(request'.view).model][p] =
                                               request'.POST]
             /\ nextId' = nextId ]_vars

\* C12 witness: with two rows stored, a valid POST to the update path of
\* row 1 was answered with a redirect; row 1 holds the submitted value and
\* row 2 another one
C12_Witness ==
    /\ Answered /\ request.method = POST_
    /\ request.path = PkPath(1, UPDATE_) /\ request.kwargs = PkKwargs(1)
    /\ request.POST = "b"
    /\ response.view_method = "update_view" /\ response.outcome = "redirect"
    /\ objects[<<"W", "g">>][1] = "b"
    /\ objects[<<"W", "g">>][2] = "a"

\* the view class names a template folder or custom templates
HasTemplates(view) ==
    \/ ViewClass(view).template_folder # EMPTY
    \/ DOMAIN ViewClass(view).custom_templates # {}

\* C13 (as claimed): a POST with invalid form data to the update path of an
\* existing row is answered by rendering the update template with that
\* object and the bound form; no redirect, no exception, the rows unchanged.
C13_InvalidUpdateRerenders ==
    [][ \A p \in 1..MaxPk :
          (/\ Answering
           /\ request'.method = POST_
           /\ request'.path = PkPath(p, UPDATE_)
           /\ request'.kwargs = PkKwargs(p)
           /\ request'.POST \notin Values
           /\ Configured(request'.view) /\ HasTemplates(request'.view)
           /\ UPDATE_ \in OpsAllowed(request'.view)
           /\ Rows(request'.view, objects)[p] # Absent)
          => /\ response'.view_method = "update_view"
             /\ response'.outcome = "render"
             /\ response'.raised = NoError
             /\ response'.context.object = p
             /\ response'.context.form = request'.POST
             /\ objects' = objects ]_vars

\* the number of rows stored
Count(rows) == Cardinality({pk \in DOMAIN rows : rows[pk] # Absent})

\* C14 (as claimed): the create handler adds exactly one row and redirects
\* on a POST with valid data; on GET and on a POST with invalid data it
\* renders the create template with the bound form and adds no row.
C14_CreateHandler ==
    [][ (/\ Answering
         /\ response'.view_method = "create_view"
         /\ Configured(request'.view) /\ HasTemplates(request'.view))
        => IF request'.method = POST_ /\ request'.POST \in Values
           THEN /\ response'.outcome = "redirect"
                /\ Count(Rows(request'.view, objects')) =
                       Count(Rows(request'.view, objects)) + 1
           ELSE /\ response'.outcome = "render"
                /\ response'.context.form = request'.POST
                /\ objects' = objects ]_vars

RowMissing(req, objs) ==
    LET pk_url_kwarg == ViewClass(req.view).pk_url_kwarg
        rows == Rows(req.view, objs)
    IN  \/ pk_url_kwarg \notin DOMAIN req.kwargs
        \/ req.kwargs[pk_url_kwarg] \notin DOMAIN rows
        \/ rows[req.kwargs[pk_url_kwarg]] = Absent

\* C16: when the detail, update or delete handler of a view with a model
\* answers a request whose primary key is the key of no stored row, or whose
\* matched parameters carry no primary key, the request ends with Http404
\* (not found) and the rows are left as they were.
C16_MissingRowNotFound ==
    [][ (/\ Answering
         /\ response'.view_method \in {"detail_view", "update_view", "delete_view"}
         /\ ViewClass(request'.view).model # NoneStr
         /\ RowMissing(request', objects))
        => /\ response'.outcome = "raise"
           /\ response'.raised = "Http404"
           /\ objects' = objects
           /\ nextId' = nextId ]_vars

\* C16 witness: row 2 was created and deleted, row 1 is stored, and a second
\* request to the delete path of row 2 has ended with Http404
C16_Witness ==
    /\ Answered
    /\ request.path = PkPath(2, DELETE_) /\ request.kwargs = PkKwargs(2)
    /\ response.view_method = "delete_view" /\ response.raised = "Http404"
    /\ nextId[<<"W", "g">>] = 3
    /\ objects[<<"W", "g">>][1] # Absent
    /\ objects[<<"W", "g">>][2] = Absent

\* the singular name of the view's model: what get_single_object_name
\* returns where the class defines it, else the model's verbose name
SingularName(view) ==
    IF ViewClass(view).get_single_object_name # NoneStr
    THEN ViewClass(view).get_single_object_name
    ELSE lower(ViewClass(view).model)

\* the template name the claim gives operation op of the view
ClaimedTemplate(view, op) ==
    IF op \in DOMAIN ViewClass(view).custom_templates
    THEN ViewClass(view).custom_templates[op]
    ELSE ViewClass(view).template_folder \o SLASH \o SingularName(view)
             \o <<"_">> \o op \o <<".", "h", "t", "m", "l">>

\* C17 (as claimed): get_template_name(operation) returns the override of
\* custom_templates when there is one for the operation, without needing
\* the singular name or template_folder, and the synthesized name
\* '{template_folder}/{singular_name}_{operation}.html' otherwise; observed
\* where the list handler and the detail handler of an existing row render.
C17_TemplateName ==
    (/\ Answered
     /\ ViewClass(request.view).model # NoneStr
     /\ HasTemplates(request.view)
     /\ \/ response.view_method = "list_view"
        \/ response.view_method = "detail_view" /\ ~RowMissing(request, objects))
    => /\ response.outcome = "render"
       /\ response.template =
              ClaimedTemplate(request.view, OpOfMethod(response.view_method))

\* the rows in which two states of the data layer differ
Changed(before, after) ==
    {mp \in ModelNames \X (1..MaxPk) : before[mp[1]][mp[2]] # after[mp[1]][mp[2]]}

\* C18: answering one request performs at most one write on the data layer
\* (one save or one delete, changing at most one row), whatever the
\* response and also when the request ends with an exception; a request
\* answered by the list or detail handler, or by no handler, performs none.
C18_AtMostOneWrite ==
    [][ Answering =>
          /\ response'.saved + response'.deleted <= 1
          /\ Cardinality(Changed(objects, objects')) <= response'.saved + response'.deleted
          /\ (response'.view_method \in {"list_view", "detail_view", NoneVal}
                 => /\ response'.saved + response'.deleted = 0
                    /\ objects' = objects /\ nextId' = nextId) ]_vars

\* C18 witness: a create on a view without redirect_url has saved one row,
\* the second of the collection, and then failed
C18_Witness ==
    /\ Answered
    /\ response.view_method = "create_view"
    /\ response.saved = 1 /\ response.deleted = 0
    /\ response.raised = "ImproperlyConfigured"
    /\ Count(objects[<<"W", "g">>]) = 2

---------------------------------------------------------------------------
(* Properties of the router: which duplicate is reported                   *)

\* entry i of the registry has the prefix of the register call c
SamePrefix(i, c) == registery[i][1] = normalize_prefix(c.prefix)

\* entry i of the registry has the basename of the register call c
SameBasename(i, c) == registery[i][3] = BasenameOf(c)

\* C19 (as claimed): register reports the duplicate-basename error whenever
\* some entry has the basename of the new registration, whether or not an
\* entry has its prefix, and the duplicate-prefix error when some entry has
\* its prefix and none has its basename.
C19_BasenameReportedFirst ==
    [][ (call'.op = "register" /\ BasenameOf(call') # NoneStr)
        => /\ (\E i \in 1..Len(registery) : SameBasename(i, call'))
                 => raised' = "ImproperlyConfigured:basename"
           /\ ((\E i \in 1..Len(registery) : SamePrefix(i, call'))
                 /\ ~(\E i \in 1..Len(registery) : SameBasename(i, call')))
                 => raised' = "ImproperlyConfigured:prefix" ]_vars

\* C19 (amended): register reports the conflict of the first entry, in
\* registration order, that has the prefix or the basename of the new
\* registration: the duplicate-prefix error if that entry has the prefix
\* (whether or not it or a later entry has the basename), the
\* duplicate-basename error if it has the basename only.
C19_FirstConflictPrefixFirst ==
    [][ call'.op = "register" =>
          \E nb \in {BasenameOf(call')}, np \in {normalize_prefix(call'.prefix)} :
            nb # NoneStr =>
              \A i \in 1..Len(registery) :
                (/\ registery[i][1] = np \/ registery[i][3] = nb
                 /\ \A j \in 1..(i - 1) : registery[j][1] # np /\ registery[j][3] # nb)
                => raised' = IF registery[i][1] = np
                             THEN "ImproperlyConfigured:prefix"
                             ELSE "ImproperlyConfigured:basename" ]_vars

\* C19 witness: a register call whose prefix is that of an earlier entry and
\* whose basename is that of a later entry has failed with the
\* duplicate-prefix error
C19_Witness ==
    /\ call.op = "register"
    /\ raised = "ImproperlyConfigured:prefix"
    /\ \E i, j \in 1..Len(registery) :
           i < j /\ SamePrefix(i, call) /\ SameBasename(j, call)

---------------------------------------------------------------------------
(* Properties of the dispatch: the lookup                                  *)

\* C20 (as claimed): the lookup has a primary-key entry only when the
\* primary-key path parameter is among the matched parameters, so a GET or
\* POST request without it is never resolved to the detail handler,
\* whatever the last segment of its path.
C20_NoPkNoDetail ==
    (/\ Answered
     /\ request.method \in {GET_, POST_}
     /\ HasNoPk(request))
    => /\ response.view_method # "detail_view"
       /\ Selected(request) # "detail_view"

\* the verb and path of the request select no handler
SelectsNoHandler(req) ==
    \/ req.method \notin {GET_, POST_, PUT_, DELETE_VERB}
    \/ req.method = PUT_ /\ ~PathEndsWith(req.path, UPDATE_)
    \/ req.method = DELETE_VERB /\ ~PathEndsWith(req.path, DELETE_)
    \/ req.method \in {GET_, POST_} /\ Selected(req) = NoneVal

\* C21 (as claimed): for every verb and path that select no handler,
\* get_view_method returns None without raising and dispatch falls through
\* to the framework's method-not-allowed answer.
C21_NoMatchFallsThrough ==
    (Answered /\ SelectsNoHandler(request))
    => /\ response.raised = NoError
       /\ response.view_method = NoneVal
       /\ response.outcome = "405"

---------------------------------------------------------------------------
(* Properties of the router: what the operations leave alone               *)

\* the (route, name) pairs of a list of pattern entries
RouteNames(entries) == [k \in 1..Len(entries) |-> <<entries[k].route, entries[k].name>>]

\* C22: a successful register appends one triple (normalized prefix, view,
\* basename) and leaves the earlier entries and their order as they were; a
\* register call that fails leaves the registry as it was; get_urls never
\* changes the registry, and a get_urls call right after another returns
\* the same sequence of (route, name) pairs.
C22_RegistryFrame ==
    [][ /\ (call'.op = "register" /\ raised' = NoError)
            => /\ Len(registery') = Len(registery) + 1
               /\ SubSeq(registery', 1, Len(registery)) = registery
               /\ registery'[Len(registery')] =
                      <<normalize_prefix(call'.prefix), call'.view, BasenameOf(call')>>
        /\ (call'.op = "register" /\ raised' # NoError) => registery' = registery
        /\ call'.op = "get_urls" => registery' = registery
        /\ (call.op = "get_urls" /\ call'.op = "get_urls")
            => /\ raised' = raised
               /\ RouteNames(returned') = RouteNames(returned) ]_vars

\* C22 witness: get_urls has returned the entries of a registry of two
\* views, which it left in place
C22_Witness ==
    /\ call.op = "get_urls" /\ raised = NoError
    /\ Len(registery) = 2
    /\ Len(returned) = Len(routes_of(registery[1])) + Len(routes_of(registery[2]))

\* C23 (as claimed): the names of the entries get_urls returns are pairwise
\* distinct, for every registry register accepts, basenames that differ
\* only in letter case included.
C23_NamesDistinct ==
    GotUrls =>
        \A i, j \in 1..Len(returned) :
            i # j => returned[i].name # returned[j].name

---------------------------------------------------------------------------
(* Properties of the handlers: what a request may write                    *)

\* C24 (as claimed): answering a GET request creates, updates and deletes
\* no row, for every path and every view class.
C24_GetChangesNothing ==
    [][ (Answering /\ request'.method = GET_)
        => /\ objects' = objects
           /\ nextId' = nextId
           /\ response'.saved = 0 /\ response'.deleted = 0 ]_vars

\* the exceptions of a view class that is not configured: no redirect_url
\* (ImproperlyConfigured); no model, no form_class, no template_folder or
\* custom_templates (ValueError)
ViewConfigErrors == {"ImproperlyConfigured", "ValueError"}

\* C25 (as claimed): a request that ends with a configuration error has
\* created, updated and deleted no row by the time the error is raised.
C25_ConfigErrorWritesNothing ==
    [][ (Answering /\ response'.raised \in ViewConfigErrors)
        => /\ objects' = objects
           /\ nextId' = nextId
           /\ response'.saved = 0 /\ response'.deleted = 0 ]_vars

---------------------------------------------------------------------------
(* Properties of the router and the dispatch together                      *)

\* the position of character c in s, 0 if s does not contain it
IndexOf(s, c) ==
    IF \E i \in 1..Len(s) : s[i] = c
    THEN CHOOSE i \in 1..Len(s) : s[i] = c /\ \A j \in 1..(i - 1) : s[j] # c
    ELSE 0

\* the URL resolver: the request path matches the route and the matched
\* parameters are those of the request.  A route without a converter
\* matches the path that equals it; '<int:name>' matches a text of digits
\* and passes its int value under the name.
RouteMatches(route, req) ==
    LET open == IndexOf(route, "<")
        close == IndexOf(route, ">")
    IN  IF open = 0
        THEN req.path = SLASH \o route /\ DOMAIN req.kwargs = {}
        ELSE LET before == SLASH \o SubSeq(route, 1, open - 1)
                 after == SubSeq(route, close + 1, Len(route))
                 name == SubSeq(route, open + 5, close - 1)
             IN  \E n \in 1..(Len(req.path) - Len(before) - Len(after)) :
                     LET text == SubSeq(req.path, Len(before) + 1, Len(before) + n)
                     IN  /\ req.path = before \o text \o after
                         /\ IsDigits(text)
                         /\ req.kwargs = (name :> ToInt(text))

\* the prefix under which the view of the request is registered
RoutePrefix == SubSeq(BasePath, 2, Len(BasePath))

\* what get_urls returns for a router on which the view of the request has
\* been registered under RoutePrefix
UrlsFor(view) == get_urls(<< <<RoutePrefix, view, <<"w", "g">>>> >>)

\* the handler of an operation
HandlerOf(op) ==
    CASE op = LIST_ -> "list_view"
      [] op = CREATE_ -> "create_view"
      [] op = DETAIL_ -> "detail_view"
      [] op = UPDATE_ -> "update_view"
      [] op = DELETE_ -> "delete_view"

\* C26 (as claimed): for every route get_urls generates for an operation of
\* a registered view, a GET request whose path matches the route, for every
\* text of the primary key the int converter accepts, is resolved to the
\* handler of that operation.
C26_RouterDispatchAgree ==
    (Answered /\ request.method = GET_ /\ UrlsFor(request.view).raised = NoError)
    => \A k \in 1..Len(UrlsFor(request.view).value) :
           RouteMatches(UrlsFor(request.view).value[k].route, request)
           => response.view_method =
                  HandlerOf(ViewClass(request.view).allowed_views[k])

---------------------------------------------------------------------------
(* Properties of the router and the view's own validation together         *)

\* the number of distinct operations the views of reg[i..] permit
RECURSIVE PermittedFrom(_, _)
PermittedFrom(reg, i) ==
    IF i > Len(reg) THEN 0
    ELSE Cardinality(_allowed_views(ViewClass(reg[i][2])).value)
            + PermittedFrom(reg, i + 1)

\* C27 (as claimed): when _allowed_views accepts the allowed_views of every
\* registered view, in any letter case and with repeated names, get_urls
\* succeeds and returns one entry per distinct permitted operation of each
\* view, so an operation has a route exactly if dispatch permits it.
C27_RoutesAreThePermittedOperations ==
    (/\ call.op = "get_urls"
     /\ registery # <<>>
     /\ \A i \in 1..Len(registery) :
            _allowed_views(ViewClass(registery[i][2])).raised = NoError)
    => /\ raised = NoError
       /\ Len(returned) = PermittedFrom(registery, 1)
       /\ \A i \in 1..Len(registery) :
              \A op \in _allowed_views(ViewClass(registery[i][2])).value :
                  \E k \in 1..Len(returned) : IsEntryFor(returned[k], i, op)

=============================================================================
